---- MODULE Spec2Model ----
(***************************************************************************)
(* State-machine model of the openoligo driver layer:                      *)
(*   openoligo/driver/switch.py   BaseSwitch, BaseValve, PneumaticNoValve, *)
(*                                Pump, toggle, periodic_toggle            *)
(*   openoligo/driver/manifold.py Manifold, set_manifold, toggle_manifold, *)
(*                                set_one_hot                              *)
(* The Board (openoligo/driver/board.py) is an external collaborator: it   *)
(* is modelled as a line state and a command count per pin with set/value, *)
(* plus an environment step in which the physical line changes behind the  *)
(* driver's back.                                                          *)
(***************************************************************************)
EXTENDS Integers, FiniteSets, Sequences, TLC

VARIABLES
    manifold,   \* the Manifold object of the session (NoManifold when none)
    switches,   \* the devices of the session, indexed from 0 as in Python
    board,      \* Board: the line state of every pin
    wrapped,    \* per object constructed so far, the pins its devices wrap
    pt,         \* the activation of periodic_toggle (its locals)
    last        \* the last call the caller saw complete, with what it saw

vars == <<manifold, switches, board, wrapped, pt, last>>

----------------------------------------------------------------------------
(* Bounds of the model. *)

\* cap on a device's _switch_count (a Python int, unbounded in the code)
MaxSwitchCount == 2

\* largest count argument given to periodic_toggle
MaxCount == 2

\* largest number of manifolds constructed one after the other
MaxManifolds == 2

----------------------------------------------------------------------------
(* Program constants and input domains. *)

VALID_SIZES == {4, 8, 10, 16, 20}

\* sizes tried at construction: every valid size and invalid ones around them
SizeInputs == VALID_SIZES \cup {0, 3, 5, 21}

SwitchClasses == {"BaseSwitch", "Pump"}
ValveClasses == {"BaseValve", "PneumaticNoValve"}
Classes == SwitchClasses \cup ValveClasses

\* What a caller can pass as Manifold.switch_type: a class of switch.py
\* itself (bound = FALSE), or a callable of (pin, name) that supplies the
\* class's remaining constructor arguments gpio_pin and board (bound = TRUE).
SwitchTypes ==
    [cls : Classes, bound : {FALSE}] \cup
    [cls : {"BaseSwitch", "BaseValve", "PneumaticNoValve"}, bound : {TRUE}]

NoType == [cls |-> "None", bound |-> FALSE]
NoManifold == [switch_type |-> NoType, size |-> 0]

\* the pins the devices of a manifold of any valid size are given
Pins == UNION {0..(size - 1) : size \in VALID_SIZES}

IntervalInputs == {-1, 0, 1}
CountInputs == -1..MaxCount

----------------------------------------------------------------------------
(* Board: set(pin, state) and value(pin). Each pin holds the state of its *)
(* line and the number of set commands the board has received for it.     *)

BoardInit == [p \in Pins |-> [state |-> FALSE, commands |-> 0]]

BoardSet(b, pin, state) ==
    [b EXCEPT ![pin] = [state |-> state, commands |-> @.commands + 1]]

BoardValue(b, pin) == b[pin].state

\* the number of set commands the board has received for a pin
BoardCommands(b, pin) == b[pin].commands

\* the board after the line of a pin changed state outside the driver
LineFlipped(b, pin) == [b EXCEPT ![pin].state = ~@]

----------------------------------------------------------------------------
(* Devices. *)

IsSwitch(d) == d.cls \in SwitchClasses

\* BaseSwitch(name, gpio_pin, board): the dataclass defaults
NewBaseSwitch(cls, gpio_pin) ==
    [cls |-> cls, gpio_pin |-> gpio_pin, switch_count |-> 0, state |-> FALSE]

\* BaseValve.__post_init__
BaseValvePostInit(valve_type) ==
    IF valve_type = "NORMALLY_CLOSED" THEN "CLOSED_FLOW" ELSE "OPEN_FLOW"

\* BaseValve(pin, name, gpio_pin, board, valve_type)
NewBaseValve(cls, gpio_pin, valve_type) ==
    [cls |-> cls, gpio_pin |-> gpio_pin, valve_type |-> valve_type,
     switch_count |-> 0, state |-> BaseValvePostInit(valve_type)]

\* the valve_type a class is constructed with when none is given
DefaultValveType(cls) ==
    IF cls = "PneumaticNoValve" THEN "NORMALLY_CLOSED" ELSE "NORMALLY_OPEN"

NewDeviceOf(cls, gpio_pin, valve_type) ==
    IF cls \in SwitchClasses
    THEN NewBaseSwitch(cls, gpio_pin)
    ELSE NewBaseValve(cls, gpio_pin, valve_type)

\* The result of a call: how it ended, what it returned, and the devices and
\* the board it leaves.
Result(outcome, ret, sw, b) ==
    [outcome |-> outcome, ret |-> ret, switches |-> sw, board |-> b]

\* a set that records the state and leaves the commanding to a later call
BaseSwitchSetCachedOnly(sw, b, i, state) ==
    Result("ok", FALSE,
           [sw EXCEPT ![i].state = state, ![i].switch_count = @ + 1], b)

\* BaseSwitch.set (Pump.set adds logging only)
BaseSwitchSet(sw, b, i, state) ==
    Result("ok", FALSE,
           [sw EXCEPT ![i].state = state, ![i].switch_count = @ + 1],
           BoardSet(b, sw[i].gpio_pin, state))

\* a value that adopts the board's state when the two disagree
BaseSwitchValueRepairs(sw, b, i) ==
    Result("ok", BoardValue(b, sw[i].gpio_pin),
           [sw EXCEPT ![i].state = BoardValue(b, sw[i].gpio_pin)], b)

\* BaseSwitch.value
BaseSwitchValue(sw, b, i) ==
    IF sw[i].state # BoardValue(b, sw[i].gpio_pin)
    THEN Result("SwitchingError", FALSE, sw, b)
    ELSE Result("ok", sw[i].state, sw, b)

\* a set that reads its argument as "energise": a normally open valve closes
BaseValveSetByType(sw, b, i, state) ==
    Result("ok", FALSE,
           [sw EXCEPT ![i].state = IF state = (sw[i].valve_type = "NORMALLY_CLOSED")
                                    THEN "OPEN_FLOW" ELSE "CLOSED_FLOW",
                      ![i].switch_count = @ + 1],
           b)

\* BaseValve.set
BaseValveSet(sw, b, i, state) ==
    Result("ok", FALSE,
           [sw EXCEPT ![i].state = IF state THEN "OPEN_FLOW" ELSE "CLOSED_FLOW",
                      ![i].switch_count = @ + 1],
           b)

\* BaseValve.open
BaseValveOpen(sw, b, i) == BaseValveSet(sw, b, i, TRUE)

\* BaseValve.close
BaseValveClose(sw, b, i) == BaseValveSet(sw, b, i, FALSE)

\* a value that compares the flow state with the board as a Switch does
BaseValveValueChecksBoard(sw, b, i) ==
    IF (sw[i].state = "OPEN_FLOW") # BoardValue(b, sw[i].gpio_pin)
    THEN Result("SwitchingError", FALSE, sw, b)
    ELSE Result("ok", sw[i].state = "OPEN_FLOW", sw, b)

\* BaseValve.value
BaseValveValue(sw, b, i) ==
    Result("ok", sw[i].state = "OPEN_FLOW", sw, b)

\* switch.set(state), dispatched on the device's class
DeviceSet(sw, b, i, state) ==
    IF IsSwitch(sw[i]) THEN BaseSwitchSet(sw, b, i, state)
    ELSE BaseValveSet(sw, b, i, state)

\* switch.value, dispatched on the device's class
DeviceValue(sw, b, i) ==
    IF IsSwitch(sw[i]) THEN BaseSwitchValue(sw, b, i)
    ELSE BaseValveValue(sw, b, i)

\* a toggle that inverts the cached state without reading value
toggleFromCached(sw, b, i) ==
    DeviceSet(sw, b, i,
              ~(IF IsSwitch(sw[i]) THEN sw[i].state ELSE sw[i].state = "OPEN_FLOW"))

\* a toggle that sets the device to the value it read
toggleKeepsValue(sw, b, i) ==
    LET v == DeviceValue(sw, b, i)
    IN  IF v.outcome # "ok" THEN v
        ELSE DeviceSet(sw, b, i, v.ret)

\* toggle(switch): switch.set(not switch.value)
toggle(sw, b, i) ==
    LET v == DeviceValue(sw, b, i)
    IN  IF v.outcome # "ok" THEN v
        ELSE DeviceSet(sw, b, i, ~v.ret)

----------------------------------------------------------------------------
(* Manifold. *)

\* switch_type(i, f"Switch {i}"): the classes of switch.py take three
\* (BaseSwitch, Pump) or four (BaseValve, PneumaticNoValve) required
\* positional arguments, so called with two they raise TypeError.
SwitchTypeAccepts(switch_type) == switch_type.bound

\* a __post_init__ that populates the devices before it validates the size
ManifoldPostInitValidatesLate(switch_type, size) ==
    IF size > 0 /\ ~SwitchTypeAccepts(switch_type)
    THEN [outcome |-> "TypeError", made |-> 0,
          manifold |-> NoManifold, switches |-> <<>>]
    ELSE IF size \notin VALID_SIZES
    THEN [outcome |-> "InvalidManifoldSizeError",
          made |-> IF size > 0 THEN size ELSE 0,
          manifold |-> NoManifold, switches |-> <<>>]
    ELSE [outcome |-> "ok", made |-> size,
          manifold |-> [switch_type |-> switch_type, size |-> size],
          switches |-> [i \in 0..(size - 1) |->
                           NewDeviceOf(switch_type.cls, i,
                                       DefaultValveType(switch_type.cls))]]

\* Manifold.__post_init__: made counts the devices constructed
ManifoldPostInit(switch_type, size) ==
    IF size \notin VALID_SIZES
    THEN [outcome |-> "InvalidManifoldSizeError", made |-> 0,
          manifold |-> NoManifold, switches |-> <<>>]
    ELSE IF ~SwitchTypeAccepts(switch_type)
    THEN [outcome |-> "TypeError", made |-> 0,
          manifold |-> NoManifold, switches |-> <<>>]
    ELSE [outcome |-> "ok", made |-> size,
          manifold |-> [switch_type |-> switch_type, size |-> size],
          switches |-> [i \in 0..(size - 1) |->
                           NewDeviceOf(switch_type.cls, i,
                                       DefaultValveType(switch_type.cls))]]

\* a Manifold.set without the index < 0 test: a negative index reaches the
\* list, which Python counts from its end
ManifoldSetNoLowerBound(m, sw, b, index, state) ==
    IF index >= m.size THEN Result("ValueError", FALSE, sw, b)
    ELSE IF index + m.size < 0 THEN Result("IndexError", FALSE, sw, b)
    ELSE DeviceSet(sw, b, IF index < 0 THEN index + m.size ELSE index, state)

\* Manifold.set
ManifoldSet(m, sw, b, index, state) ==
    IF index < 0 \/ index >= m.size
    THEN Result("ValueError", FALSE, sw, b)
    ELSE DeviceSet(sw, b, index, state)

\* Manifold.value
ManifoldValue(m, sw, b, index) ==
    IF index < 0 \/ index >= m.size
    THEN Result("ValueError", FALSE, sw, b)
    ELSE DeviceValue(sw, b, index)

----------------------------------------------------------------------------
(* The session: what the caller has constructed and is running. *)

\* the indices a Manifold accessor is given in range: the first and the last
Probes == {i \in DOMAIN switches : i = 0 \/ i + 1 = Cardinality(DOMAIN switches)}

\* the devices handed to set, value, toggle and periodic_toggle directly:
\* those constructed on their own (a manifold's are driven through it)
Devices == IF manifold.size > 0 THEN {} ELSE DOMAIN switches

\* index arguments given to the Manifold accessors and to set_one_hot
IndexInputs == {-1, manifold.size} \cup Probes

PtIdle ==
    [pc |-> "idle", target |-> 0, interval |-> 0, loop_forever |-> FALSE,
     count |-> 0, n |-> 0, cycles |-> 0, toggles |-> 0, start |-> 0, fault |-> FALSE]

\* what the caller saw of a call: its arguments, how it ended, its value
Saw(op, index, state, outcome, ret) ==
    [op |-> op, index |-> index, state |-> state, outcome |-> outcome,
     ret |-> ret, pre |-> <<>>, pre2 |-> <<>>]

\* the pins the devices of a list wrap
PinsOf(sw) == {sw[i].gpio_pin : i \in DOMAIN sw}

\* no call is running: the driver is synchronous and single-threaded
Ready == pt.pc # "loop"

HasManifold == manifold # NoManifold

\* every device can still count one more set
RoomFor(sw, k) == \A i \in DOMAIN sw : sw[i].switch_count + k <= MaxSwitchCount

Init ==
    /\ manifold = NoManifold
    /\ switches = <<>>
    /\ board = BoardInit
    /\ wrapped = <<>>
    /\ pt = PtIdle
    /\ last = Saw("none", 0, FALSE, "ok", FALSE)

\* cls(name, gpio_pin, board) / cls(pin, name, gpio_pin, board[, valve_type])
NewDevice(cls, valve_type) ==
    /\ Ready
    /\ DOMAIN switches = {}
    /\ cls = "PneumaticNoValve" => valve_type = DefaultValveType(cls)
    /\ cls \in SwitchClasses => valve_type = "NORMALLY_OPEN"
    /\ switches' = [i \in {0} |-> NewDeviceOf(cls, 0, valve_type)]
    /\ wrapped' = Append(wrapped, {0})
    /\ last' = Saw("new", 0, FALSE, "ok", FALSE)
    /\ pt' = PtIdle
    /\ UNCHANGED <<manifold, board>>

\* Manifold(switch_type, size)
NewManifold(switch_type, size) ==
    /\ Ready
    /\ DOMAIN switches = {}
    /\ LET r == ManifoldPostInit(switch_type, size)
       IN  /\ manifold' = r.manifold
           /\ switches' = r.switches
           /\ wrapped' = IF r.outcome = "ok"
                         THEN Append(wrapped, PinsOf(r.switches))
                         ELSE wrapped
           /\ last' = [Saw("Manifold", size, switch_type.bound, r.outcome, FALSE)
                         EXCEPT !.pre = <<switch_type.cls, r.made>>]
    /\ pt' = PtIdle
    /\ UNCHANGED board

\* Manifold(switch_type, size) in a process that already holds a manifold:
\* the session goes on with the new one
AnotherManifold(switch_type, size) ==
    /\ Ready
    /\ HasManifold
    /\ Len(wrapped) < MaxManifolds
    /\ LET r == ManifoldPostInit(switch_type, size)
       IN  /\ manifold' = IF r.outcome = "ok" THEN r.manifold ELSE manifold
           /\ switches' = IF r.outcome = "ok" THEN r.switches ELSE switches
           /\ wrapped' = IF r.outcome = "ok"
                         THEN Append(wrapped, PinsOf(r.switches))
                         ELSE wrapped
           /\ last' = [Saw("Manifold", size, switch_type.bound, r.outcome, FALSE)
                         EXCEPT !.pre = <<switch_type.cls, r.made>>]
    /\ pt' = PtIdle
    /\ UNCHANGED board

\* switch.set(state), also reached as on/off; pre keeps whether the cached
\* state of a Switch disagreed with the board when the call was made
Set(i, state) ==
    /\ Ready
    /\ i \in Devices
    /\ switches[i].switch_count < MaxSwitchCount
    /\ LET r == DeviceSet(switches, board, i, state)
       IN  /\ switches' = r.switches
           /\ board' = r.board
           /\ last' = [Saw("set", i, state, r.outcome, r.ret) EXCEPT
                         !.pre = <<IsSwitch(switches[i]) /\
                                   DeviceValue(switches, board, i).outcome # "ok">>]
    /\ pt' = PtIdle
    /\ UNCHANGED <<manifold, wrapped>>

\* valve.open()
Open(i) ==
    /\ Ready
    /\ i \in Devices
    /\ ~IsSwitch(switches[i])
    /\ switches[i].switch_count < MaxSwitchCount
    /\ LET r == BaseValveOpen(switches, board, i)
       IN  /\ switches' = r.switches
           /\ board' = r.board
           /\ last' = Saw("open", i, TRUE, r.outcome, r.ret)
    /\ pt' = PtIdle
    /\ UNCHANGED <<manifold, wrapped>>

\* valve.close()
Close(i) ==
    /\ Ready
    /\ i \in Devices
    /\ ~IsSwitch(switches[i])
    /\ switches[i].switch_count < MaxSwitchCount
    /\ LET r == BaseValveClose(switches, board, i)
       IN  /\ switches' = r.switches
           /\ board' = r.board
           /\ last' = Saw("close", i, FALSE, r.outcome, r.ret)
    /\ pt' = PtIdle
    /\ UNCHANGED <<manifold, wrapped>>

\* switch.value
Value(i) ==
    /\ Ready
    /\ i \in Devices
    /\ LET r == DeviceValue(switches, board, i)
       IN  /\ switches' = r.switches
           /\ board' = r.board
           /\ last' = Saw("value", i, FALSE, r.outcome, r.ret)
    /\ pt' = PtIdle
    /\ UNCHANGED <<manifold, wrapped>>

\* toggle(switch); pre and pre2 keep the device's value and counter before
\* this toggle and before the successful toggle of the same device that
\* directly preceded it
Toggle(i) ==
    /\ Ready
    /\ i \in Devices
    /\ switches[i].switch_count < MaxSwitchCount
    /\ LET v == DeviceValue(switches, board, i)
           r == toggle(switches, board, i)
       IN  /\ switches' = r.switches
           /\ board' = r.board
           /\ last' = [Saw("toggle", i, FALSE, r.outcome, FALSE) EXCEPT
                         !.pre = IF v.outcome = "ok"
                                 THEN <<v.ret, switches[i].switch_count>>
                                 ELSE <<>>,
                         !.pre2 = IF /\ last.op = "toggle"
                                     /\ last.index = i
                                     /\ last.outcome = "ok"
                                     /\ r.outcome = "ok"
                                  THEN last.pre
                                  ELSE <<>>]
    /\ pt' = PtIdle
    /\ UNCHANGED <<manifold, wrapped>>

\* manifold.set(index, state)
ManifoldSetCall(index, state) ==
    /\ Ready
    /\ HasManifold
    /\ index \in IndexInputs
    /\ index \in DOMAIN switches => switches[index].switch_count < MaxSwitchCount
    /\ LET r == ManifoldSet(manifold, switches, board, index, state)
       IN  /\ switches' = r.switches
           /\ board' = r.board
           /\ last' = Saw("Manifold.set", index, state, r.outcome, r.ret)
    /\ pt' = PtIdle
    /\ UNCHANGED <<manifold, wrapped>>

\* manifold.value(index)
ManifoldValueCall(index) ==
    /\ Ready
    /\ HasManifold
    /\ index \in IndexInputs
    /\ LET r == ManifoldValue(manifold, switches, board, index)
       IN  /\ switches' = r.switches
           /\ board' = r.board
           /\ last' = Saw("Manifold.value", index, FALSE, r.outcome, r.ret)
    /\ pt' = PtIdle
    /\ UNCHANGED <<manifold, wrapped>>

\* The line of a pin changes state outside the driver (stuck contact, bus
\* fault, or its recovery): the pin of a Switch, or of a valve constructed on
\* its own.
BoardFault(pin) ==
    /\ \E i \in Probes :
          /\ IsSwitch(switches[i]) \/ ~HasManifold
          /\ switches[i].gpio_pin = pin
    /\ board' = LineFlipped(board, pin)
    /\ UNCHANGED <<manifold, switches, wrapped, pt, last>>

----------------------------------------------------------------------------
(* periodic_toggle(switch, interval, loop_forever, count). *)

\* an entry check that tests the count and not the interval
PeriodicToggleAssertsCountOnly(interval, loop_forever, count) ==
    count > 0 \/ loop_forever

\* the two assert statements at entry
PeriodicToggleAsserts(interval, loop_forever, count) ==
    /\ interval > 0
    /\ count > 0 \/ loop_forever

\* a while condition that tests the count alone
PeriodicToggleLoopsCountOnly(loop_forever, count) == count > 0

\* a while condition that stops one pass early
PeriodicToggleLoopsOneLess(loop_forever, count) == loop_forever \/ count > 1

\* the while condition
PeriodicToggleLoops(loop_forever, count) == loop_forever \/ count > 0

\* a loop with no except clause
PeriodicToggleCatchesNothing(outcome) == FALSE

\* except SwitchingError: the exceptions the loop's try statement catches
PeriodicToggleCatches(outcome) == outcome = "SwitchingError"

\* count -= 1 if count > 0 else 0
PeriodicToggleDecrement(count) == count - (IF count > 0 THEN 1 ELSE 0)

PeriodicToggleCall(i, interval, loop_forever, count) ==
    /\ Ready
    /\ i \in Devices
    /\ ~loop_forever /\ count > 0 => switches[i].switch_count + count <= MaxSwitchCount
    /\ IF PeriodicToggleAsserts(interval, loop_forever, count)
       THEN /\ pt' = [pc |-> "loop", target |-> i, interval |-> interval,
                      loop_forever |-> loop_forever,
                      count |-> count, n |-> count, cycles |-> 0, toggles |-> 0,
                      start |-> switches[i].switch_count, fault |-> FALSE]
            /\ last' = Saw("periodic_toggle", i, loop_forever, "running", FALSE)
       ELSE /\ pt' = PtIdle
            /\ last' = [Saw("periodic_toggle", i, loop_forever, "AssertionError", FALSE)
                          EXCEPT !.pre = <<interval > 0, count > 0>>]
    /\ UNCHANGED <<manifold, switches, board, wrapped>>

\* one pass of the loop body: decrement, toggle, log, sleep; an exception
\* leaves the loop: a caught one is logged and the function returns, any other
\* reaches the caller
PeriodicToggleCycle ==
    /\ pt.pc = "loop"
    /\ PeriodicToggleLoops(pt.loop_forever, pt.count)
    /\ switches[pt.target].switch_count < MaxSwitchCount
    /\ LET r == toggle(switches, board, pt.target)
       IN  /\ switches' = r.switches
           /\ board' = r.board
           /\ IF r.outcome # "ok"
              THEN /\ pt' = [pt EXCEPT !.pc = "returned",
                                       !.count = PeriodicToggleDecrement(@),
                                       !.cycles = @ + 1,
                                       !.fault = TRUE]
                   /\ last' = Saw("periodic_toggle", pt.target, pt.loop_forever,
                                  IF PeriodicToggleCatches(r.outcome)
                                  THEN "ok" ELSE r.outcome,
                                  FALSE)
              ELSE /\ pt' = [pt EXCEPT !.count = PeriodicToggleDecrement(@),
                                       !.cycles = @ + 1,
                                       !.toggles = @ + 1]
                   /\ last' = last
    /\ UNCHANGED <<manifold, wrapped>>

\* the while condition is false: the function returns
PeriodicToggleReturn ==
    /\ pt.pc = "loop"
    /\ ~PeriodicToggleLoops(pt.loop_forever, pt.count)
    /\ pt' = [pt EXCEPT !.pc = "returned"]
    /\ last' = Saw("periodic_toggle", pt.target, pt.loop_forever, "ok", FALSE)
    /\ UNCHANGED <<manifold, switches, board, wrapped>>

----------------------------------------------------------------------------
(* set_manifold, toggle_manifold, set_one_hot. *)

\* how a loop over the devices ended: at is the index it stopped at (the
\* number of devices when it ran to its end)
LoopResult(r, at) ==
    [outcome |-> r.outcome, ret |-> r.ret, switches |-> r.switches,
     board |-> r.board, at |-> at]

\* a loop body that leaves alone a device that already reads the state
SetManifoldBodySkipsSame(sw, b, i, state) ==
    IF DeviceValue(sw, b, i).outcome = "ok" /\ DeviceValue(sw, b, i).ret = state
    THEN Result("ok", FALSE, sw, b)
    ELSE DeviceSet(sw, b, i, state)

\* the body of set_manifold's loop
SetManifoldBody(sw, b, i, state) == DeviceSet(sw, b, i, state)

\* a loop body that passes over a device whose toggle raises
ToggleManifoldBodySkipsFaulted(sw, b, i) ==
    IF toggle(sw, b, i).outcome # "ok" THEN Result("ok", FALSE, sw, b)
    ELSE toggle(sw, b, i)

\* the body of toggle_manifold's loop
ToggleManifoldBody(sw, b, i) == toggle(sw, b, i)

\* set_one_hot that turns the selected device on and leaves the others as
\* they were
SetOneHotBodySelectsOnly(m, sw, b, i, index) ==
    IF i = index THEN ManifoldSet(m, sw, b, i, TRUE)
    ELSE Result("ok", FALSE, sw, b)

\* the body of set_one_hot's loop
SetOneHotBody(m, sw, b, i, index) == ManifoldSet(m, sw, b, i, i = index)

\* set_manifold from device i on: for switch in manifold.switches
RECURSIVE SetManifoldFrom(_, _, _, _, _)
SetManifoldFrom(m, sw, b, i, state) ==
    IF i >= m.size THEN LoopResult(Result("ok", FALSE, sw, b), i)
    ELSE LET r == SetManifoldBody(sw, b, i, state)
         IN  IF r.outcome # "ok" THEN LoopResult(r, i)
             ELSE SetManifoldFrom(m, r.switches, r.board, i + 1, state)

set_manifold(m, sw, b, state) == SetManifoldFrom(m, sw, b, 0, state)

\* toggle_manifold from device i on: for switch in manifold.switches
RECURSIVE ToggleManifoldFrom(_, _, _, _)
ToggleManifoldFrom(m, sw, b, i) ==
    IF i >= m.size THEN LoopResult(Result("ok", FALSE, sw, b), i)
    ELSE LET r == ToggleManifoldBody(sw, b, i)
         IN  IF r.outcome # "ok" THEN LoopResult(r, i)
             ELSE ToggleManifoldFrom(m, r.switches, r.board, i + 1)

toggle_manifold(m, sw, b) == ToggleManifoldFrom(m, sw, b, 0)

\* a set_one_hot that goes through the devices from the last to the first
RECURSIVE SetOneHotRangeDescending(_, _, _, _, _, _)
SetOneHotRangeDescending(m, sw, b, i, upto, index) ==
    IF i >= upto THEN LoopResult(Result("ok", FALSE, sw, b), i)
    ELSE LET r == SetOneHotBody(m, sw, b, m.size - 1 - i, index)
         IN  IF r.outcome # "ok" THEN LoopResult(r, i)
             ELSE SetOneHotRangeDescending(m, r.switches, r.board, i + 1, upto,
                                           index)

\* set_one_hot for i in range(from, upto): upto = manifold.size is the whole
\* call, a smaller upto is the call stopped before device upto
RECURSIVE SetOneHotRange(_, _, _, _, _, _)
SetOneHotRange(m, sw, b, i, upto, index) ==
    IF i >= upto THEN LoopResult(Result("ok", FALSE, sw, b), i)
    ELSE LET r == SetOneHotBody(m, sw, b, i, index)
         IN  IF r.outcome # "ok" THEN LoopResult(r, i)
             ELSE SetOneHotRange(m, r.switches, r.board, i + 1, upto, index)

set_one_hot(m, sw, b, index) == SetOneHotRange(m, sw, b, 0, m.size, index)

\* set_manifold(manifold, state); pre keeps whether some device's value read
\* would have raised when the call was made
SetManifoldCall(state) ==
    /\ Ready
    /\ HasManifold
    /\ RoomFor(switches, 1)
    /\ LET r == set_manifold(manifold, switches, board, state)
       IN  /\ switches' = r.switches
           /\ board' = r.board
           /\ last' = [Saw("set_manifold", r.at, state, r.outcome, FALSE) EXCEPT
                         !.pre = <<\E i \in DOMAIN switches :
                                     DeviceValue(switches, board, i).outcome # "ok">>]
    /\ pt' = PtIdle
    /\ UNCHANGED <<manifold, wrapped>>

ToggleManifoldCall ==
    /\ Ready
    /\ HasManifold
    /\ RoomFor(switches, 1)
    /\ LET r == toggle_manifold(manifold, switches, board)
       IN  /\ switches' = r.switches
           /\ board' = r.board
           /\ last' = Saw("toggle_manifold", r.at, FALSE, r.outcome, FALSE)
    /\ pt' = PtIdle
    /\ UNCHANGED <<manifold, wrapped>>

\* set_one_hot(manifold, index); pre keeps whether the call was made with one
\* device reading ON at most and that one above index
SetOneHotCall(index) ==
    /\ Ready
    /\ HasManifold
    /\ index \in IndexInputs
    /\ RoomFor(switches, 1)
    /\ LET r == set_one_hot(manifold, switches, board, index)
       IN  /\ switches' = r.switches
           /\ board' = r.board
           /\ last' = [Saw("set_one_hot", index, FALSE, r.outcome, FALSE) EXCEPT
                         !.pre = <<LET on == {j \in DOMAIN switches :
                                                DeviceValue(switches, board, j).ret}
                                   IN  /\ Cardinality(on) = 1
                                       /\ \E p \in on : p > index>>]
    /\ pt' = PtIdle
    /\ UNCHANGED <<manifold, wrapped>>

----------------------------------------------------------------------------

Next ==
    \/ \E cls \in Classes, vt \in {"NORMALLY_OPEN", "NORMALLY_CLOSED"} :
          NewDevice(cls, vt)
    \/ \E st \in SwitchTypes, size \in SizeInputs : NewManifold(st, size)
    \/ \E i \in Devices, state \in BOOLEAN : Set(i, state)
    \/ \E i \in Devices : Open(i)
    \/ \E i \in Devices : Close(i)
    \/ \E i \in Devices : Value(i)
    \/ \E i \in Devices : Toggle(i)
    \/ \E i \in Devices, interval \in IntervalInputs, lf \in BOOLEAN,
          count \in CountInputs : PeriodicToggleCall(i, interval, lf, count)
    \/ PeriodicToggleCycle
    \/ PeriodicToggleReturn
    \/ \E index \in IndexInputs, state \in BOOLEAN : ManifoldSetCall(index, state)
    \/ \E index \in IndexInputs : ManifoldValueCall(index)
    \/ \E state \in BOOLEAN : SetManifoldCall(state)
    \/ ToggleManifoldCall
    \/ \E index \in IndexInputs : SetOneHotCall(index)
    \/ \E pin \in Pins : BoardFault(pin)

Spec == Init /\ [][Next]_vars

\* A session that drives one device constructed on its own
DeviceNext ==
    \/ \E cls \in Classes, vt \in {"NORMALLY_OPEN", "NORMALLY_CLOSED"} :
          NewDevice(cls, vt)
    \/ \E i \in Devices, state \in BOOLEAN : Set(i, state)
    \/ \E i \in Devices : Open(i)
    \/ \E i \in Devices : Close(i)
    \/ \E i \in Devices : Value(i)
    \/ \E i \in Devices : Toggle(i)
    \/ \E i \in Devices, interval \in IntervalInputs, lf \in BOOLEAN,
          count \in CountInputs : PeriodicToggleCall(i, interval, lf, count)
    \/ PeriodicToggleCycle
    \/ PeriodicToggleReturn
    \/ \E pin \in Pins : BoardFault(pin)

DeviceSpec == Init /\ [][DeviceNext]_vars

\* A session that drives one manifold: its accessors, the three functions
\* over all its devices, and the board's lines changing behind them
ManifoldNext ==
    \/ \E st \in SwitchTypes, size \in SizeInputs : NewManifold(st, size)
    \/ \E index \in IndexInputs, state \in BOOLEAN : ManifoldSetCall(index, state)
    \/ \E index \in IndexInputs : ManifoldValueCall(index)
    \/ \E state \in BOOLEAN : SetManifoldCall(state)
    \/ ToggleManifoldCall
    \/ \E index \in IndexInputs : SetOneHotCall(index)
    \/ \E pin \in Pins : BoardFault(pin)

ManifoldSpec == Init /\ [][ManifoldNext]_vars

\* Manifolds constructed one after the other in one process
PinNext ==
    \/ \E st \in SwitchTypes, size \in SizeInputs : NewManifold(st, size)
    \/ \E st \in SwitchTypes, size \in SizeInputs : AnotherManifold(st, size)

PinSpec == Init /\ [][PinNext]_vars

\* periodic_toggle runs on its caller's thread: while the thread runs, the
\* loop takes its next pass and the function returns once the loop is over
FairSpec ==
    Spec /\ WF_vars(PeriodicToggleCycle) /\ WF_vars(PeriodicToggleReturn)

----------------------------------------------------------------------------
(* Properties. *)

\* the logical value a device holds: a Switch's cached state, a Valve's flow
IsOn(d) == IF IsSwitch(d) THEN d.state ELSE d.state = "OPEN_FLOW"

\* a Switch whose cached state differs from what the board reports
Desynced(i) ==
    /\ IsSwitch(switches[i])
    /\ switches[i].state # BoardValue(board, switches[i].gpio_pin)

\* the board reports, for every Switch, the state set_one_hot(index) commanded
BoardReportsOneHot(index) ==
    \A j \in DOMAIN switches :
        IsSwitch(switches[j]) =>
            BoardValue(board, switches[j].gpio_pin) = (j = index)

\* C1: after set_one_hot(manifold, i) with 0 <= i < size has returned, and
\* with the board reporting the commanded states, Manifold.value(i) returns
\* true and Manifold.value(j) returns false for every other j in [0, size),
\* whatever the devices held before the call.
C1_OneHotValues ==
    ( /\ last.op = "set_one_hot"
      /\ last.index \in DOMAIN switches
      /\ BoardReportsOneHot(last.index) )
    => /\ last.outcome = "ok"
       /\ \A j \in DOMAIN switches :
             LET v == ManifoldValue(manifold, switches, board, j)
             IN  v.outcome = "ok" /\ v.ret = (j = last.index)

\* C1 witness: set_one_hot selected the last device of a manifold of
\* Switches whose first device had been commanded before, and the manifold
\* reads one-hot.
C1_Witness ==
    /\ last.op = "set_one_hot"
    /\ last.index = manifold.size - 1
    /\ IsSwitch(switches[0])
    /\ switches[0].switch_count > 1
    /\ BoardReportsOneHot(last.index)
    /\ ManifoldValue(manifold, switches, board, last.index).ret
    /\ ~ManifoldValue(manifold, switches, board, 0).ret

\* C2: value() on a Switch whose cached state differs from the board's state
\* for its pin fails with SwitchingError and leaves the cached state, the
\* counter and the board as they were.
C2_DesyncFaults ==
    \A i \in DOMAIN switches :
        Desynced(i) =>
            LET r == DeviceValue(switches, board, i)
            IN  /\ r.outcome = "SwitchingError"
                /\ r.switches = switches
                /\ r.board = board

\* C2 witness: value() was called on a desynced Switch, failed, and the Switch
\* is still desynced.
C2_Witness ==
    /\ last.op = "value"
    /\ last.outcome = "SwitchingError"
    /\ Desynced(last.index)
    /\ switches[last.index].switch_count > 0

\* C3 (as claimed): every set_one_hot that returns normally leaves exactly one
\* device ON, and an index outside [0, size) ends in a range fault.
C3_ExactlyOneOn ==
    last.op = "set_one_hot" =>
        /\ last.outcome = "ok" =>
              Cardinality({j \in DOMAIN switches : IsOn(switches[j])}) = 1
        /\ last.index \notin DOMAIN switches => last.outcome = "ValueError"

\* C11 (as claimed): for every device kind (Switch, Pump, Valve), set(state)
\* succeeds, adds exactly one to the device's switch counter and issues
\* exactly one command to the Board, for the device's pin.
C11_SetCommandsBoardOnce ==
    \A i \in DOMAIN switches : \A state \in BOOLEAN :
        LET r == DeviceSet(switches, board, i, state)
            pin == switches[i].gpio_pin
        IN  /\ r.outcome = "ok"
            /\ r.switches[i].switch_count = switches[i].switch_count + 1
            /\ BoardCommands(r.board, pin) = BoardCommands(board, pin) + 1
            /\ \A p \in Pins \ {pin} : r.board[p] = board[p]

\* C12 (as claimed): after any sequence of Manifold constructions no pin is
\* wrapped by two devices: the devices of a manifold have pairwise distinct
\* pins 0..size-1, and no two manifolds have a pin in common.
C12_PinsNotShared ==
    /\ \A i, j \in DOMAIN switches :
          i # j => switches[i].gpio_pin # switches[j].gpio_pin
    /\ HasManifold => PinsOf(switches) = 0..(manifold.size - 1)
    /\ \A a, c \in DOMAIN wrapped :
          a # c => wrapped[a] \cap wrapped[c] = {}

\* C13: a valve constructed NORMALLY_CLOSED starts with value false and one
\* constructed NORMALLY_OPEN (the BaseValve default) with value true; after
\* that its value is true exactly when the most recent set/open/close
\* commanded true, whatever its valve_type.
C13_ValveValueFollowsCommand ==
    \A i \in DOMAIN switches :
        ~IsSwitch(switches[i]) =>
            /\ switches[i].switch_count = 0 =>
                  DeviceValue(switches, board, i).ret
                      = (switches[i].valve_type # "NORMALLY_CLOSED")
            /\ DefaultValveType("BaseValve") = "NORMALLY_OPEN"
            /\ \A state \in BOOLEAN :
                  LET r == DeviceSet(switches, board, i, state)
                  IN  DeviceValue(r.switches, r.board, i).ret = state
            /\ LET r == BaseValveOpen(switches, board, i)
               IN  DeviceValue(r.switches, r.board, i).ret = TRUE
            /\ LET r == BaseValveClose(switches, board, i)
               IN  DeviceValue(r.switches, r.board, i).ret = FALSE
            /\ (/\ last.op \in {"set", "open", "close", "Manifold.set"}
                /\ last.outcome = "ok"
                /\ last.index = i)
               => DeviceValue(switches, board, i).ret = last.state

\* a normally open valve has been closed and reports false
C13_Witness ==
    /\ last.op = "close"
    /\ last.outcome = "ok"
    /\ last.index \in DOMAIN switches
    /\ switches[last.index].cls = "BaseValve"
    /\ switches[last.index].valve_type = "NORMALLY_OPEN"
    /\ DeviceValue(switches, board, last.index).ret = FALSE

\* C14: Switch.set(s) writes the cached state and the board, so right after
\* any set, one made while desynchronised included, the cached state and the
\* board's state are both s and a value read that follows returns s without
\* a fault.
C14_SetResynchronises ==
    \A i \in DOMAIN switches :
        IsSwitch(switches[i]) =>
            \A s \in BOOLEAN :
                LET r == DeviceSet(switches, board, i, s)
                    v == DeviceValue(r.switches, r.board, i)
                IN  /\ r.outcome = "ok"
                    /\ r.switches[i].state = s
                    /\ BoardValue(r.board, switches[i].gpio_pin) = s
                    /\ v.outcome = "ok"
                    /\ v.ret = s
                    /\ v.switches = r.switches /\ v.board = r.board

\* a desynchronised Switch has been set and reads back what was set
C14_Witness ==
    /\ last.op = "set"
    /\ last.pre = <<TRUE>>
    /\ last.index \in DOMAIN switches
    /\ IsSwitch(switches[last.index])
    /\ switches[last.index].state = last.state
    /\ BoardValue(board, switches[last.index].gpio_pin) = last.state
    /\ DeviceValue(switches, board, last.index).outcome = "ok"
    /\ DeviceValue(switches, board, last.index).ret = last.state

\* the board as it is, and with the line of the manifold's middle device
\* changed outside the driver
BoardsTried ==
    {board, LineFlipped(board, switches[manifold.size \div 2].gpio_pin)}

\* the first device whose value read raises on board b (size when none does)
FirstFaulted(b) ==
    LET F == {i \in DOMAIN switches :
                 DeviceValue(switches, b, i).outcome # "ok"}
    IN  IF F = {} THEN manifold.size
        ELSE CHOOSE i \in F : \A j \in F : i <= j

\* C15: toggle_manifold goes through the devices in ascending index order and
\* is not atomic: when device k raises SwitchingError the error reaches the
\* caller, every device below k has been toggled exactly once and device k
\* and those above it are unchanged; when none raises, every device has been
\* toggled exactly once.
C15_ToggleManifoldPrefix ==
    HasManifold =>
        \A b \in BoardsTried :
            LET r == toggle_manifold(manifold, switches, b)
                k == FirstFaulted(b)
            IN  /\ r.at = k
                /\ r.outcome = IF k = manifold.size THEN "ok" ELSE "SwitchingError"
                /\ \A i \in DOMAIN switches :
                      LET pin == switches[i].gpio_pin
                      IN  IF i < k
                          THEN /\ r.switches[i].switch_count
                                     = switches[i].switch_count + 1
                               /\ IsOn(r.switches[i]) = ~IsOn(switches[i])
                               /\ IsSwitch(switches[i]) =>
                                     /\ BoardValue(r.board, pin) = ~BoardValue(b, pin)
                                     /\ BoardCommands(r.board, pin)
                                           = BoardCommands(b, pin) + 1
                          ELSE /\ r.switches[i] = switches[i]
                               /\ r.board[pin] = b[pin]

\* toggle_manifold stopped at the last device of a manifold with a
\* SwitchingError, the devices before it toggled
C15_Witness ==
    /\ last.op = "toggle_manifold"
    /\ last.outcome = "SwitchingError"
    /\ last.index = manifold.size - 1
    /\ Desynced(manifold.size - 1)
    /\ switches[manifold.size - 1].switch_count = 0
    /\ \A i \in 0..(manifold.size - 2) :
          switches[i].switch_count = 1 /\ IsOn(switches[i])

\* C16: set_manifold commands every device exactly once, in ascending index
\* order, and cannot fail; after it every device's value equals state and
\* every counter is one higher, devices that already held state or were
\* desynchronised included.
C16_SetManifoldAll ==
    HasManifold =>
        \A b \in {board}, state \in BOOLEAN :
            LET r == set_manifold(manifold, switches, b, state)
                half == SetManifoldFrom([manifold EXCEPT !.size = @ \div 2],
                                        switches, b, 0, state)
            IN  /\ r.outcome = "ok"
                /\ r.at = manifold.size
                /\ \A i \in DOMAIN switches :
                      LET v == DeviceValue(r.switches, r.board, i)
                          pin == switches[i].gpio_pin
                      IN  /\ v.outcome = "ok" /\ v.ret = state
                          /\ r.switches[i].switch_count
                                = switches[i].switch_count + 1
                          /\ IsSwitch(switches[i]) =>
                                BoardCommands(r.board, pin)
                                    = BoardCommands(b, pin) + 1
                          /\ half.switches[i] = IF i < half.at THEN r.switches[i]
                                                ELSE switches[i]
                          /\ half.board[pin] = IF i < half.at THEN r.board[pin]
                                               ELSE b[pin]

\* set_manifold(True) has returned on a manifold of Switches one of which
\* was desynchronised and the first of which had been commanded before; all
\* read True
C16_Witness ==
    /\ last.op = "set_manifold"
    /\ last.outcome = "ok"
    /\ last.state = TRUE
    /\ last.pre = <<TRUE>>
    /\ IsSwitch(switches[0])
    /\ switches[0].switch_count = 2
    /\ \A i \in DOMAIN switches :
          /\ DeviceValue(switches, board, i).outcome = "ok"
          /\ DeviceValue(switches, board, i).ret = TRUE

\* C17: no operation of a Valve reads the board or depends on it: value never
\* raises and toggling a Valve cannot fail, whatever the board reports for
\* its pin.
C17_ValveIgnoresBoard ==
    \A i \in Probes :
        ~IsSwitch(switches[i]) =>
            \A b \in {board, LineFlipped(board, switches[i].gpio_pin)} :
                LET v == DeviceValue(switches, b, i)
                    t == toggle(switches, b, i)
                IN  /\ v.outcome = "ok"
                    /\ v.ret = DeviceValue(switches, board, i).ret
                    /\ v.switches = switches /\ v.board = b
                    /\ t.outcome = "ok"
                    /\ t.switches = toggle(switches, board, i).switches
                    /\ t.board = b
                    /\ \A state \in BOOLEAN :
                          LET r == DeviceSet(switches, b, i, state)
                          IN  /\ r.outcome = "ok"
                              /\ r.switches
                                    = DeviceSet(switches, board, i, state).switches
                              /\ r.board = b

\* a valve has been toggled to closed while the board reports its line high
C17_Witness ==
    /\ last.op = "toggle"
    /\ last.outcome = "ok"
    /\ last.index \in DOMAIN switches
    /\ ~IsSwitch(switches[last.index])
    /\ BoardValue(board, switches[last.index].gpio_pin) = TRUE
    /\ DeviceValue(switches, board, last.index).outcome = "ok"
    /\ DeviceValue(switches, board, last.index).ret = FALSE

\* C18: with loop_forever true and interval > 0, periodic_toggle ignores
\* count: any count passes the entry checks, the loop condition stays true
\* whatever count has become, the call does not return unless a
\* SwitchingError occurs, and the number of toggles is not bounded by count.
C18_LoopForeverIgnoresCount ==
    /\ \A count \in CountInputs :
          /\ PeriodicToggleAsserts(1, TRUE, count)
          /\ PeriodicToggleLoops(TRUE, count)
    /\ (pt.loop_forever /\ pt.pc = "loop") =>
          /\ PeriodicToggleLoops(pt.loop_forever, pt.count)
          /\ ~ENABLED PeriodicToggleReturn
          /\ pt.toggles = pt.cycles
    /\ (pt.loop_forever /\ pt.pc = "returned") =>
          /\ pt.fault
          /\ last.op = "periodic_toggle" /\ last.outcome = "ok"
    /\ (pt.loop_forever /\ pt.pc # "idle") =>
          switches[pt.target].switch_count = pt.start + pt.toggles

\* a loop_forever call given count = 1 has toggled twice and is still running
C18_Witness ==
    /\ pt.pc = "loop"
    /\ pt.loop_forever
    /\ pt.n = 1
    /\ pt.count = 0
    /\ pt.toggles = 2
    /\ ~pt.fault

\* C19: a desynchronised Switch stays faulted under value() and toggle():
\* each of them fails with SwitchingError and changes nothing, a failed call
\* leaves the Switch desynchronised, and the Switch is in agreement with the
\* board again only after a set() or after the board's line changed back.
C19_DesyncPersists ==
    [][ \A i \in DOMAIN switches :
          Desynced(i) =>
            LET pin == switches[i].gpio_pin
                v == DeviceValue(switches, board, i)
                t == toggle(switches, board, i)
            IN  /\ v.outcome = "SwitchingError"
                /\ t.outcome = "SwitchingError"
                /\ t.switches = switches /\ t.board = board
                /\ toggle(t.switches, t.board, i).outcome = "SwitchingError"
                /\ DeviceValue(t.switches, t.board, i).outcome = "SwitchingError"
                /\ (/\ last' # last
                    /\ last'.op \in {"value", "toggle", "Manifold.value"}
                    /\ last'.index = i)
                   => /\ last'.outcome = "SwitchingError"
                      /\ switches' = switches
                      /\ board' = board
                /\ (i \in DOMAIN switches' /\ ~Desynced(i)')
                   => \/ /\ BoardCommands(board', pin)
                               = BoardCommands(board, pin) + 1
                         /\ last'.op \in {"set", "Manifold.set", "set_manifold",
                                          "set_one_hot"}
                      \/ /\ switches' = switches
                         /\ board' = LineFlipped(board, pin) ]_vars

\* toggle was called on a Switch that had been set and then lost agreement
\* with the board; it failed and the Switch is still desynchronised
C19_Witness ==
    /\ last.op = "toggle"
    /\ last.outcome = "SwitchingError"
    /\ last.index \in DOMAIN switches
    /\ Desynced(last.index)
    /\ switches[last.index].switch_count = 1
    /\ switches[last.index].state = TRUE

\* the devices of a list that are ON
OnDevices(sw) == {j \in DOMAIN sw : IsOn(sw[j])}

\* index arguments tried for set_one_hot: the first, the middle and the last
\* device, and one index either side of the range
OneHotInputs == IndexInputs \cup {manifold.size \div 2}

\* set_one_hot(index) followed pass by pass from the point where passes
\* 0..k-1 are done, the devices being sw, the board b, and on the devices ON:
\* at most two devices are ON at this point and at every later one, two only
\* with the target done and the device ON at the start (start) above it and
\* still to come, and pass k commands device k and no other (so the devices
\* ON after it are those ON before it, but for device k).
RECURSIVE OneHotPasses(_, _, _, _, _, _)
OneHotPasses(sw, b, on, start, k, index) ==
    /\ Cardinality(on) <= 2
    /\ Cardinality(on) = 2 =>
          \E p \in start :
              /\ p > index
              /\ index \in 0..(k - 1)
              /\ k <= p
              /\ on = {index, p}
    /\ IF k >= manifold.size
       THEN LET whole == set_one_hot(manifold, switches, board, index)
            IN  /\ sw = whole.switches
                /\ b = whole.board
                /\ on = OnDevices(sw)
       ELSE LET r == SetOneHotRange(manifold, sw, b, k, k + 1, index)
            IN  /\ r.outcome = "ok"
                /\ r.at = k + 1
                /\ r.switches = [sw EXCEPT ![k] = r.switches[k]]
                /\ r.switches[k].switch_count = sw[k].switch_count + 1
                /\ IsOn(r.switches[k]) = (k = index)
                /\ OneHotPasses(r.switches, r.board,
                                (on \ {k}) \cup
                                    (IF IsOn(r.switches[k]) THEN {k} ELSE {}),
                                start, k + 1, index)

\* C20: set_one_hot goes through the devices in ascending index order; when
\* it starts with at most one device ON, at most two devices are ON at every
\* intermediate point, and two only while the device selected before has a
\* higher index than the target and has not been reached yet.
C20_AtMostTwoOn ==
    (HasManifold /\ Cardinality(OnDevices(switches)) <= 1) =>
        \A index \in OneHotInputs :
            OneHotPasses(switches, board, OnDevices(switches),
                         OnDevices(switches), 0, index)

\* set_one_hot selected the first device of a manifold whose last device
\* alone was ON: from the first pass until the last both were ON, and now
\* the first alone is
C20_Witness ==
    /\ last.op = "set_one_hot"
    /\ last.outcome = "ok"
    /\ last.index = 0
    /\ last.pre = <<TRUE>>
    /\ OnDevices(switches) = {0}
    /\ switches[manifold.size - 1].switch_count = 2

\* a device as its constructor leaves it: counter 0 and the rest state of
\* its type
AtRest(d) ==
    /\ d.switch_count = 0
    /\ IF IsSwitch(d) THEN d.state = FALSE
       ELSE IF d.valve_type = "NORMALLY_CLOSED" THEN d.state = "CLOSED_FLOW"
       ELSE d.state = "OPEN_FLOW"

\* C4 (as claimed): constructing a Manifold of a size in {4, 8, 10, 16, 20}
\* succeeds and yields exactly size devices, indexed 0..size-1, each in its
\* type's rest state with a switch counter of 0.
C4_ValidSizeConstructs ==
    (last.op = "Manifold" /\ last.index \in VALID_SIZES) =>
        /\ last.outcome = "ok"
        /\ DOMAIN switches = 0..(last.index - 1)
        /\ \A i \in DOMAIN switches : AtRest(switches[i])

\* C5: constructing a Manifold of a size outside {4, 8, 10, 16, 20} fails
\* with InvalidManifoldSizeError, whatever the switch type; no device has been
\* constructed and the board has received no command.
C5_InvalidSizeFails ==
    (last.op = "Manifold" /\ last.index \notin VALID_SIZES) =>
        /\ last.outcome = "InvalidManifoldSizeError"
        /\ last.pre[2] = 0
        /\ DOMAIN switches = {}
        /\ manifold = NoManifold
        /\ board = BoardInit

\* C5 witness: a Manifold of an invalid size was asked for with a switch
\* type that constructs, and the construction failed.
C5_Witness ==
    /\ last.op = "Manifold"
    /\ last.index \notin VALID_SIZES
    /\ last.index > 0
    /\ last.state
    /\ last.outcome = "InvalidManifoldSizeError"

\* the indices outside [0, size) around the manifold's range
OutOfRange ==
    ((0 - manifold.size - 1)..(2 * manifold.size)) \ (0..(manifold.size - 1))

\* C6: for every index < 0 or >= size, Manifold.value(index) and
\* Manifold.set(index, state) fail with the range fault (ValueError) and
\* leave every device's state and counter and every board pin unchanged.
C6_RangeFault ==
    HasManifold =>
        \A index \in OutOfRange :
            /\ LET r == ManifoldValue(manifold, switches, board, index)
               IN  /\ r.outcome = "ValueError"
                   /\ r.switches = switches
                   /\ r.board = board
            /\ \A state \in BOOLEAN :
                  LET r == ManifoldSet(manifold, switches, board, index, state)
                  IN  /\ r.outcome = "ValueError"
                      /\ r.switches = switches
                      /\ r.board = board

\* C6 witness: Manifold.set was called with index -1 on a manifold whose
\* last device is OFF and was never commanded, and failed with the range
\* fault.
C6_Witness ==
    /\ last.op = "Manifold.set"
    /\ last.index = -1
    /\ last.state
    /\ last.outcome = "ValueError"
    /\ ~IsOn(switches[manifold.size - 1])
    /\ switches[manifold.size - 1].switch_count = 0

\* C7: a successful toggle() flips the device's value and adds 1 to its
\* counter; two consecutive successful toggle() calls on a device restore the
\* value it had before the first and add exactly 2 to its counter.
C7_ToggleTwice ==
    (last.op = "toggle" /\ last.outcome = "ok") =>
        LET d == switches[last.index]
        IN  /\ IsOn(d) = ~last.pre[1]
            /\ d.switch_count = last.pre[2] + 1
            /\ last.pre2 # <<>> =>
                  /\ IsOn(d) = last.pre2[1]
                  /\ d.switch_count = last.pre2[2] + 2

\* C7 witness: a Switch that was OFF has been toggled twice in a row, was ON
\* in between and is OFF again.
C7_Witness ==
    /\ last.op = "toggle"
    /\ last.outcome = "ok"
    /\ last.pre2 # <<>>
    /\ IsSwitch(switches[last.index])
    /\ ~last.pre2[1]
    /\ last.pre[1]
    /\ ~IsOn(switches[last.index])

\* C8: periodic_toggle(device, interval > 0, loop_forever = false, count = n)
\* with n > 0 returns, and when the device raised no fault it has then been
\* toggled exactly n times and its switch counter has grown by exactly n.
C8_BoundedToggles ==
    /\ []( (pt.pc = "returned" /\ ~pt.loop_forever /\ ~pt.fault) =>
             /\ last.op = "periodic_toggle"
             /\ last.outcome = "ok"
             /\ pt.n > 0
             /\ pt.toggles = pt.n
             /\ switches[pt.target].switch_count = pt.start + pt.n )
    /\ ((pt.pc = "loop" /\ ~pt.loop_forever) ~> (pt.pc = "returned"))

\* C8 witness: a bounded periodic_toggle of more than one cycle has returned
\* without a fault.
C8_Witness ==
    /\ pt.pc = "returned"
    /\ ~pt.loop_forever
    /\ ~pt.fault
    /\ pt.n > 1
    /\ pt.toggles = pt.n

\* C9: a periodic_toggle call with interval <= 0, or with loop_forever false
\* and count <= 0, fails with the precondition fault (AssertionError) before
\* the first cycle, leaving the device's state, counter and board pin
\* unchanged; a call that enters the loop has interval > 0 and count > 0 or
\* loop_forever.
C9_PreconditionFault ==
    [][ (pt.pc # "loop" /\ last' # last /\ last'.op = "periodic_toggle") =>
          IF last'.outcome = "AssertionError"
          THEN /\ switches' = switches
               /\ board' = board
               /\ pt'.pc = "idle"
               /\ ~last'.pre[1] \/ (~last'.state /\ ~last'.pre[2])
          ELSE /\ pt'.pc = "loop"
               /\ pt'.toggles = 0
               /\ pt'.interval > 0
               /\ pt'.n > 0 \/ pt'.loop_forever ]_vars

\* C9 witness: periodic_toggle was called with interval <= 0 and
\* loop_forever on a device that is ON, and failed.
C9_Witness ==
    /\ last.op = "periodic_toggle"
    /\ last.outcome = "AssertionError"
    /\ ~last.pre[1]
    /\ last.state
    /\ IsOn(switches[last.index])
    /\ switches[last.index].switch_count > 0

\* C10: when the device raises SwitchingError in cycle k of periodic_toggle,
\* the loop stops there and periodic_toggle returns normally; the loop has
\* toggled the device exactly k - 1 times and toggles it no more.
C10_FaultStopsLoop ==
    (pt.pc = "returned" /\ pt.fault) =>
        /\ last.op = "periodic_toggle"
        /\ last.outcome = "ok"
        /\ pt.toggles = pt.cycles - 1
        /\ switches[pt.target].switch_count = pt.start + pt.toggles
        /\ ~ENABLED PeriodicToggleCycle

\* C10 witness: a loop_forever periodic_toggle met the fault in its second
\* cycle and returned.
C10_Witness ==
    /\ pt.pc = "returned"
    /\ pt.fault
    /\ pt.loop_forever
    /\ pt.cycles = pt.toggles + 1
    /\ pt.toggles > 0
    /\ last.outcome = "ok"

====
